---- MODULE Spec2Model ----
(***************************************************************************)
(* A model of create_and_sign_transaction (src/src/transaction.rs), the    *)
(* script classifier (src/src/types.rs) and parse_network (src/src/cli.rs) *)
(* of bitcoin-tx-signer-cli.  One behaviour of the model is one run of the *)
(* program: the UTXO loop, the output loop, the fee estimate, the assembly *)
(* of the unsigned transaction, the digest loop and the signing loop.      *)
(***************************************************************************)
EXTENDS Integers, Sequences, FiniteSets, TLC

(***************************************************************************)
(* Bounds of the model.                                                    *)
(*   MaxLen   : longest UTXO list and longest output list of a run.        *)
(*   WordBits : the width at which the u64 satoshi arithmetic is modelled  *)
(*              (the code's width is 64; every sum, product and difference *)
(*              of the code is taken modulo 2^WordBits).                   *)
(***************************************************************************)
MaxLen == 2
WordBits == 20

U64Modulus == 2 ^ WordBits
U64Max == U64Modulus - 1

\* transaction.rs:13 and :16
DUST_THRESHOLD_SATS == 546
DUMMY_SIGNATURE_LEN == 72

\* Sequence::MAX.0 = 0xFFFFFFFF (transaction.rs:58); a u32 is kept as its two
\* 16-bit halves <<high, low>>.
SequenceMax == <<65535, 65535>>

\* Option<T>: <<>> is None, <<v>> is Some(v).
None == <<>>
Some(v) == <<v>>
IsSome(o) == Len(o) = 1

\* Option::or and Option::unwrap_or (transaction.rs:58)
OptionOr(a, b) == IF IsSome(a) THEN a ELSE b
UnwrapOr(a, d) == IF IsSome(a) THEN a[1] ELSE d

\* Result<T, E>
Ok(v) == [ok |-> TRUE, val |-> v]
Err(e) == [ok |-> FALSE, err |-> e]

RECURSIVE SumSeq(_)
SumSeq(s) == IF s = <<>> THEN 0 ELSE s[1] + SumSeq(Tail(s))

Repeat(b, n) == [i \in 1..n |-> b]

(***************************************************************************)
(* Hexadecimal text.  A string is a sequence of one-character strings.     *)
(***************************************************************************)
HexDigits == <<"0","1","2","3","4","5","6","7","8","9","a","b","c","d","e","f">>

\* hex::decode's value of one character: both cases are accepted, anything
\* else is -1 (transaction.rs:53, Txid::from_str at :49).
HexVal(c) ==
  CASE c = "0" -> 0  [] c = "1" -> 1  [] c = "2" -> 2  [] c = "3" -> 3
    [] c = "4" -> 4  [] c = "5" -> 5  [] c = "6" -> 6  [] c = "7" -> 7
    [] c = "8" -> 8  [] c = "9" -> 9
    [] c \in {"a", "A"} -> 10  [] c \in {"b", "B"} -> 11
    [] c \in {"c", "C"} -> 12  [] c \in {"d", "D"} -> 13
    [] c \in {"e", "E"} -> 14  [] c \in {"f", "F"} -> 15
    [] OTHER -> -1

\* hex::decode: odd length or a non-hex character is an error.
HexDecode(s) ==
  IF Len(s) % 2 # 0 THEN Err("OddLength")
  ELSE IF \E i \in 1..Len(s) : HexVal(s[i]) = -1 THEN Err("InvalidHexCharacter")
  ELSE Ok([i \in 1..(Len(s) \div 2) |-> 16 * HexVal(s[2*i - 1]) + HexVal(s[2*i])])

\* ScriptBuf::to_hex_string: lower-case, two characters per byte (types.rs:21).
ToHexString(bytes) ==
  [i \in 1..(2 * Len(bytes)) |->
     IF i % 2 = 1 THEN HexDigits[(bytes[(i + 1) \div 2] \div 16) + 1]
     ELSE HexDigits[(bytes[i \div 2] % 16) + 1]]

ToUpper(c) ==
  CASE c = "a" -> "A" [] c = "b" -> "B" [] c = "c" -> "C"
    [] c = "d" -> "D" [] c = "e" -> "E" [] c = "f" -> "F" [] OTHER -> c
UpperHex(s) == [i \in 1..Len(s) |-> ToUpper(s[i])]

(***************************************************************************)
(* Locking scripts are byte sequences.                                     *)
(***************************************************************************)
OP_DUP == 118
OP_HASH160 == 169
OP_PUSHBYTES_20 == 20
OP_EQUALVERIFY == 136
OP_CHECKSIG == 172
OP_EQUAL == 135
OP_0 == 0

\* Script::is_p2pkh (types.rs:14, transaction.rs:198)
is_p2pkh(script) ==
  /\ Len(script) = 25
  /\ script[1] = OP_DUP
  /\ script[2] = OP_HASH160
  /\ script[3] = OP_PUSHBYTES_20
  /\ script[24] = OP_EQUALVERIFY
  /\ script[25] = OP_CHECKSIG

\* Script::is_p2wpkh (types.rs:16, transaction.rs:208)
is_p2wpkh(script) ==
  /\ Len(script) = 22
  /\ script[1] = OP_0
  /\ script[2] = OP_PUSHBYTES_20

\* The mutant of from_script_buf: the P2WPKH test only looks at the version byte.
from_script_buf_lax(script) ==
  IF is_p2pkh(script) THEN Ok("P2PKH")
  ELSE IF Len(script) > 0 /\ script[1] = OP_0 THEN Ok("P2WPKH")
  ELSE Err([kind |-> "UnknownScriptType", script_hex |-> ToHexString(script)])

\* ScriptType::from_script_buf (types.rs:13-23)
from_script_buf(script) ==
  IF is_p2pkh(script) THEN Ok("P2PKH")
  ELSE IF is_p2wpkh(script) THEN Ok("P2WPKH")
  ELSE Err([kind |-> "UnknownScriptType", script_hex |-> ToHexString(script)])

\* Script::p2wpkh_script_code (transaction.rs:210): the P2PKH script over the
\* witness program's 20-byte hash, None for any other script.
p2wpkh_script_code(script) ==
  IF is_p2wpkh(script)
  THEN Some(<<OP_DUP, OP_HASH160, OP_PUSHBYTES_20>> \o SubSeq(script, 3, 22)
            \o <<OP_EQUALVERIFY, OP_CHECKSIG>>)
  ELSE None

(***************************************************************************)
(* Networks.                                                               *)
(***************************************************************************)
ToLowerChar(c) ==
  CASE c = "B" -> "b" [] c = "M" -> "m" [] c = "T" -> "t" [] c = "R" -> "r"
    [] c = "E" -> "e" [] c = "S" -> "s" [] c = "N" -> "n" [] OTHER -> c
to_lowercase(s) == [i \in 1..Len(s) |-> ToLowerChar(s[i])]

\* parse_network (cli.rs:22-29)
parse_network(network_str) ==
  LET s == to_lowercase(network_str) IN
  IF s = <<"b","i","t","c","o","i","n">> \/ s = <<"m","a","i","n","n","e","t">>
    THEN Ok("Bitcoin")
  ELSE IF s = <<"t","e","s","t","n","e","t">> THEN Ok("Testnet")
  ELSE IF s = <<"r","e","g","t","e","s","t">> THEN Ok("Regtest")
  ELSE Err([kind |-> "InputValidation", value |-> s])

\* The mutant of NetworkKindOf: every network counts as a test network.
NetworkKindAlwaysTest(network) == "Test"

\* NetworkKind::from(Network), the `cli_network.into()` of transaction.rs:41:
\* a private key only knows main from test.
NetworkKindOf(network) == IF network = "Bitcoin" THEN "Main" ELSE "Test"

\* PrivateKey::from_wif (transaction.rs:39) on the base58check payload of the
\* WIF text: the checksum, the payload length (34 with the compression
\* marker, 33 without) and the version byte decide the result.
from_wif(wif) ==
  IF ~wif.checksum_ok THEN Err([kind |-> "BitcoinKey", cause |-> "Base58"])
  ELSE IF wif.payload_len \notin {33, 34}
    THEN Err([kind |-> "BitcoinKey", cause |-> "InvalidBase58PayloadLength"])
  ELSE IF wif.version \notin {128, 239}
    THEN Err([kind |-> "BitcoinKey", cause |-> "InvalidAddressVersion"])
  ELSE Ok([network    |-> IF wif.version = 128 THEN "Main" ELSE "Test",
           compressed |-> wif.payload_len = 34,
           inner      |-> wif.secret])

\* PrivateKey::public_key (transaction.rs:47)
public_key_of(private_key) ==
  [of |-> private_key.inner, compressed |-> private_key.compressed]

\* PublicKey::to_bytes: 33 bytes compressed, 65 uncompressed.
PublicKeyLen(public_key) == IF public_key.compressed THEN 33 ELSE 65

RECURSIVE Reverse(_)
Reverse(s) == IF s = <<>> THEN <<>> ELSE Reverse(Tail(s)) \o <<s[1]>>

\* Txid::from_str (transaction.rs:49): 64 hex characters, stored byte-reversed.
TxidHexLen == 64
txid_from_str(s) ==
  IF Len(s) # TxidHexLen THEN Err("InvalidLength")
  ELSE LET d == HexDecode(s) IN
       IF d.ok THEN Ok(Reverse(d.val)) ELSE Err(d.err)

(***************************************************************************)
(* Addresses.  An address text is kept as what Address::from_str reads out *)
(* of it: its encoding, the network prefix and the locking script.         *)
(***************************************************************************)
\* Address::from_str(..).and_then(|a| a.require_network(net))
\* (transaction.rs:85-86 and :125-126).  Base58 prefixes tell main from
\* test only; bech32 prefixes are bc, tb and bcrt.
AddressForNetwork(addr, network) ==
  IF ~addr.well_formed THEN Err("ParseError")
  ELSE IF addr.encoding = "base58"
    THEN IF addr.prefix = NetworkKindOf(network) THEN Ok(addr.script)
         ELSE Err("NetworkValidation")
  ELSE IF \/ addr.prefix = "bc" /\ network = "Bitcoin"
          \/ addr.prefix = "tb" /\ network = "Testnet"
          \/ addr.prefix = "bcrt" /\ network = "Regtest"
    THEN Ok(addr.script)
  ELSE Err("NetworkValidation")

(***************************************************************************)
(* Transactions and their sizes.  A script-sig is its list of pushed       *)
(* items, a witness its list of items; a transaction is                    *)
(* [version, lock_time, input, output].                                    *)
(***************************************************************************)
\* [0u8; DUMMY_SIGNATURE_LEN] (transaction.rs:110, :115)
DummySignature == [kind |-> "zeros", len |-> DUMMY_SIGNATURE_LEN]
PublicKeyItem(public_key) == [kind |-> "pubkey", key |-> public_key]

ItemLen(item) == IF item.kind = "zeros" THEN item.len ELSE PublicKeyLen(item.key)

\* The length of a compact-size integer.
VarIntLen(n) == IF n < 253 THEN 1 ELSE IF n <= 65535 THEN 3 ELSE 5

\* Builder::push_slice / push_key: one opcode byte for up to 75 bytes of data.
PushLen(n) == (IF n <= 75 THEN 1 ELSE 2) + n

ScriptSigLen(script_sig) ==
  SumSeq([i \in 1..Len(script_sig) |-> PushLen(ItemLen(script_sig[i]))])

WitnessLen(witness) ==
  VarIntLen(Len(witness))
  + SumSeq([i \in 1..Len(witness) |->
              VarIntLen(ItemLen(witness[i])) + ItemLen(witness[i])])

TxInBaseSize(tx_in) ==
  32 + 4 + VarIntLen(ScriptSigLen(tx_in.script_sig))
  + ScriptSigLen(tx_in.script_sig) + 4

TxOutSize(tx_out) ==
  8 + VarIntLen(Len(tx_out.script_pubkey)) + Len(tx_out.script_pubkey)

BaseSize(tx) ==
  4 + VarIntLen(Len(tx.input))
  + SumSeq([i \in 1..Len(tx.input) |-> TxInBaseSize(tx.input[i])])
  + VarIntLen(Len(tx.output))
  + SumSeq([i \in 1..Len(tx.output) |-> TxOutSize(tx.output[i])])
  + 4

UsesSegwit(tx) == \E i \in 1..Len(tx.input) : tx.input[i].witness # <<>>

TotalSize(tx) ==
  BaseSize(tx)
  + (IF UsesSegwit(tx)
     THEN 2 + SumSeq([i \in 1..Len(tx.input) |-> WitnessLen(tx.input[i].witness)])
     ELSE 0)

Weight(tx) == 3 * BaseSize(tx) + TotalSize(tx)

\* Transaction::vsize (transaction.rs:142): weight / 4, rounded up.
vsize(tx) == (Weight(tx) + 3) \div 4

(***************************************************************************)
(* Signing digests.  A digest is kept as the data it commits to.           *)
(***************************************************************************)
SIGHASH_ALL == 1

\* SighashCache::legacy_signature_hash (transaction.rs:200-204)
legacy_signature_hash(tx, input_index, script_pubkey, sighash_type) ==
  IF input_index >= Len(tx.input) THEN Err("IndexOutOfBounds")
  ELSE Ok([alg          |-> "legacy",
           input_index  |-> input_index,
           version      |-> tx.version,
           inputs       |-> [i \in 1..Len(tx.input) |->
                               [previous_output |-> tx.input[i].previous_output,
                                script_sig |-> IF i = input_index + 1
                                               THEN script_pubkey ELSE <<>>,
                                sequence |-> tx.input[i].sequence]],
           outputs      |-> tx.output,
           lock_time    |-> tx.lock_time,
           sighash_type |-> sighash_type])

\* SighashCache::p2wpkh_signature_hash (transaction.rs:213-218)
p2wpkh_signature_hash(tx, input_index, script_code, value, sighash_type) ==
  IF input_index >= Len(tx.input) THEN Err("IndexOutOfBounds")
  ELSE Ok([alg          |-> "bip143",
           input_index  |-> input_index,
           version      |-> tx.version,
           prevouts     |-> [i \in 1..Len(tx.input) |-> tx.input[i].previous_output],
           sequences    |-> [i \in 1..Len(tx.input) |-> tx.input[i].sequence],
           outpoint     |-> tx.input[input_index + 1].previous_output,
           script_code  |-> script_code,
           value        |-> value,
           sequence     |-> tx.input[input_index + 1].sequence,
           outputs      |-> tx.output,
           lock_time    |-> tx.lock_time,
           sighash_type |-> sighash_type])

(***************************************************************************)
(* The inputs of a run: the --network argument and the fields of the       *)
(* InputConfig (config.rs:5-14), each drawn from a small set.              *)
(***************************************************************************)
NetworkStrings ==
  { <<"b","i","t","c","o","i","n">>, <<"M","a","i","n","n","e","t">>,
    <<"T","E","S","T","N","E","T">>, <<"r","e","g","t","e","s","t">>,
    <<"s","i","g","n","e","t">> }

P2pkhScript(h) ==
  <<OP_DUP, OP_HASH160, OP_PUSHBYTES_20>> \o Repeat(h, 20) \o <<OP_EQUALVERIFY, OP_CHECKSIG>>
P2wpkhScript(h) == <<OP_0, OP_PUSHBYTES_20>> \o Repeat(h, 20)
\* Scripts of neither supported pattern: P2SH, P2WSH (version 0, 32-byte
\* program), a P2PKH whose last opcode is wrong, the empty script.
P2shScript(h) == <<OP_HASH160, OP_PUSHBYTES_20>> \o Repeat(h, 20) \o <<OP_EQUAL>>
P2wshScript(h) == <<OP_0, 32>> \o Repeat(h, 32)
NearP2pkhScript(h) ==
  <<OP_DUP, OP_HASH160, OP_PUSHBYTES_20>> \o Repeat(h, 20) \o <<OP_EQUALVERIFY, OP_EQUAL>>

TxidTextA == <<"0", "1">> \o Repeat("a", 62)
TxidTextB == <<"F", "e">> \o Repeat("3", 62)

Wif(version, payload_len, secret) ==
  [checksum_ok |-> TRUE, version |-> version, payload_len |-> payload_len,
   secret |-> secret]

UtxoInput(txid, vout, script_pubkey_hex, value_sats, wif, sequence) ==
  [txid |-> txid, vout |-> vout, script_pubkey_hex |-> script_pubkey_hex,
   value_sats |-> value_sats, private_key_wif |-> wif, sequence |-> sequence]

\* UTXO records the run accepts on some network.
GoodUtxoInputs ==
  { UtxoInput(TxidTextA, 0, ToHexString(P2wpkhScript(17)), 100000,
              Wif(239, 34, "k1"), None),
    UtxoInput(TxidTextB, 1, UpperHex(ToHexString(P2pkhScript(171))), 1000,
              Wif(239, 33, "k2"), Some(<<65535, 65533>>)),
    UtxoInput(TxidTextA, 2, ToHexString(P2wpkhScript(34)), U64Max,
              Wif(239, 34, "k3"), None),
    UtxoInput(TxidTextB, 0, ToHexString(P2wpkhScript(51)), 100000,
              Wif(128, 34, "k4"), None) }

\* UTXO records with one defect each.
BadUtxoInputs ==
  { UtxoInput(TxidTextA, 0, ToHexString(P2wpkhScript(17)), 1000,
              [Wif(239, 34, "k5") EXCEPT !.checksum_ok = FALSE], None),
    UtxoInput(TxidTextA, 0, ToHexString(P2wpkhScript(17)), 1000,
              Wif(176, 34, "k6"), None),
    UtxoInput(Tail(TxidTextA), 0, ToHexString(P2wpkhScript(17)), 1000,
              Wif(239, 34, "k1"), None),
    UtxoInput(TxidTextA, 0, Tail(ToHexString(P2wpkhScript(17))), 1000,
              Wif(239, 34, "k1"), None),
    UtxoInput(TxidTextA, 0, ToHexString(P2shScript(17)), 1000,
              Wif(239, 34, "k1"), None),
    UtxoInput(TxidTextA, 0, UpperHex(ToHexString(P2wshScript(171))), 1000,
              Wif(239, 34, "k1"), None),
    UtxoInput(TxidTextA, 0, ToHexString(NearP2pkhScript(17)), 1000,
              Wif(239, 34, "k1"), None),
    UtxoInput(TxidTextA, 0, <<>>, 1000, Wif(239, 34, "k1"), None) }

UtxoInputs == GoodUtxoInputs \cup BadUtxoInputs

AddressText(encoding, prefix, script) ==
  [well_formed |-> TRUE, encoding |-> encoding, prefix |-> prefix, script |-> script]

AddrTb == AddressText("bech32", "tb", P2wpkhScript(68))
AddrTestBase58 == AddressText("base58", "Test", P2pkhScript(85))
AddrBc == AddressText("bech32", "bc", P2wpkhScript(102))
AddrMalformed == [AddrTb EXCEPT !.well_formed = FALSE]
AddrP2sh == AddressText("base58", "Test", P2shScript(119))

OutputDef(address, value_sats) == [address |-> address, value_sats |-> value_sats]

OutputDefs ==
  { OutputDef(AddrTb, 454), OutputDef(AddrTestBase58, 455),
    OutputDef(AddrP2sh, U64Max - 100), OutputDef(AddrBc, 50000),
    OutputDef(AddrMalformed, 1) }

ChangeAddresses == { AddrTb, AddrTestBase58, AddrBc, AddrMalformed }

FeeRates == { 0, 5, U64Max }

DefaultSequences == { None, Some(<<0, 10>>) }

(***************************************************************************)
(* The state of a run.                                                     *)
(***************************************************************************)
VARIABLES
  pc,                \* where the run is
  overflow_checks,   \* the build: TRUE when u64 overflow panics, FALSE when it wraps
  cli_network,       \* main.rs:24
  config,            \* the InputConfig, as far as the run has read it
  processed_utxos,   \* transaction.rs:35
  total_input_value_sats,             \* :36
  outputs,                            \* :82
  total_recipient_output_value_sats,  \* :83
  fee,               \* what lines 97-143 compute: the draft, its vsize, the fee
  change_value_sats, \* :154
  transaction,       \* :169, the transaction being signed
  signing_infos,     \* :183
  signed_count,      \* how many SigningInfo records the loop at :243 has consumed
  result             \* what the run hands to its caller

vars == <<pc, overflow_checks, cli_network, config, processed_utxos,
          total_input_value_sats, outputs, total_recipient_output_value_sats,
          fee, change_value_sats, transaction, signing_infos, signed_count,
          result>>

Unset == [set |-> FALSE]

Running == [kind |-> "Running"]
Failed(e) == [kind |-> "Err", err |-> e]
Panicked(line) == [kind |-> "Panic", line |-> line]
Returned(tx) == [kind |-> "Ok", tx |-> tx]

\* u64 arithmetic: a result outside 0..U64Max panics in a build with overflow
\* checks and wraps in a build without.
Overflowed(x) == x < 0 \/ x > U64Max
WrapU64(x) == ((x % U64Modulus) + U64Modulus) % U64Modulus

Init ==
  /\ pc = "start"
  /\ overflow_checks \in BOOLEAN
  /\ cli_network = "Unset"
  /\ \E default_sequence \in DefaultSequences :
       config = [utxos |-> <<>>, outputs |-> <<>>,
                 default_sequence |-> default_sequence,
                 change_address |-> None, fee_rate_sats_per_vb |-> None]
  /\ processed_utxos = <<>>
  /\ total_input_value_sats = 0
  /\ outputs = <<>>
  /\ total_recipient_output_value_sats = 0
  /\ fee = Unset
  /\ change_value_sats = 0
  /\ transaction = Unset
  /\ signing_infos = <<>>
  /\ signed_count = 0
  /\ result = Running

\* main.rs:24: the --network argument is parsed before the run starts.
ParseNetwork ==
  /\ pc = "start"
  /\ \E network_str \in NetworkStrings :
       LET r == parse_network(network_str) IN
       IF r.ok
       THEN /\ cli_network' = r.val
            /\ pc' = "utxos"
            /\ UNCHANGED result
       ELSE /\ result' = Failed(r.err)
            /\ pc' = "failed"
            /\ UNCHANGED cli_network
  /\ UNCHANGED <<overflow_checks, config, processed_utxos, total_input_value_sats,
                 outputs, total_recipient_output_value_sats, fee, change_value_sats, transaction,
                 signing_infos, signed_count>>

\* The mutant of resolve_sequence: the configuration-wide default wins over
\* the UTXO's own sequence.
resolve_sequence_default_first(sequence, default_sequence) ==
  UnwrapOr(OptionOr(default_sequence, sequence), SequenceMax)

\* transaction.rs:58
resolve_sequence(sequence, default_sequence) ==
  UnwrapOr(OptionOr(sequence, default_sequence), SequenceMax)

\* transaction.rs:39-75: one UTXO record becomes a ProcessedUtxo or an error.
normalize_utxo(utxo_input, default_sequence, network) ==
  LET key == from_wif(utxo_input.private_key_wif) IN
  IF ~key.ok THEN Err(key.err)
  ELSE IF key.val.network # NetworkKindOf(network)
    THEN Err([kind |-> "NetworkMismatch", cli_network |-> network,
              inferred_network |-> key.val.network])
  ELSE
  LET txid == txid_from_str(utxo_input.txid) IN
  IF ~txid.ok
    THEN Err([kind |-> "InputValidation", what |-> "txid", cause |-> txid.err])
  ELSE
  LET bytes == HexDecode(utxo_input.script_pubkey_hex) IN
  IF ~bytes.ok
    THEN Err([kind |-> "InputValidation", what |-> "scriptPubKeyHex",
              cause |-> bytes.err])
  ELSE
  LET script_type == from_script_buf(bytes.val) IN
  IF ~script_type.ok THEN Err(script_type.err)
  ELSE Ok([out_point   |-> [txid |-> txid.val, vout |-> utxo_input.vout],
           tx_out      |-> [value |-> utxo_input.value_sats,
                            script_pubkey |-> bytes.val],
           private_key |-> key.val,
           public_key  |-> public_key_of(key.val),
           script_type |-> script_type.val,
           sequence    |-> resolve_sequence(utxo_input.sequence, default_sequence),
           value       |-> utxo_input.value_sats])

\* transaction.rs:38-79: the loop body for the next UTXO of config.utxos.
NormalizeUtxo ==
  /\ pc = "utxos"
  /\ Len(config.utxos) < MaxLen
  /\ \E utxo_input \in UtxoInputs :
       LET r == normalize_utxo(utxo_input, config.default_sequence, cli_network)
           sum == total_input_value_sats + utxo_input.value_sats
       IN
       /\ config' = [config EXCEPT !.utxos = Append(@, utxo_input)]
       /\ IF ~r.ok
          THEN /\ result' = Failed(r.err)
               /\ pc' = "failed"
               /\ UNCHANGED <<processed_utxos, total_input_value_sats>>
          ELSE /\ processed_utxos' = Append(processed_utxos, r.val)
               /\ IF Overflowed(sum) /\ overflow_checks
                  THEN /\ result' = Panicked(76)
                       /\ pc' = "panicked"
                       /\ UNCHANGED total_input_value_sats
                  ELSE /\ total_input_value_sats' = WrapU64(sum)
                       /\ UNCHANGED <<pc, result>>
  /\ UNCHANGED <<overflow_checks, cli_network, outputs,
                 total_recipient_output_value_sats, fee, change_value_sats, transaction,
                 signing_infos, signed_count>>

\* transaction.rs:38: config.utxos has no further element.
EndUtxoLoop ==
  /\ pc = "utxos"
  /\ pc' = "outputs"
  /\ UNCHANGED <<overflow_checks, cli_network, config, processed_utxos,
                 total_input_value_sats, outputs,
                 total_recipient_output_value_sats, fee, change_value_sats, transaction,
                 signing_infos, signed_count, result>>

\* transaction.rs:84-94: the loop body for the next entry of config.outputs.
BuildOutput ==
  /\ pc = "outputs"
  /\ Len(config.outputs) < MaxLen
  /\ \E output_def \in OutputDefs :
       LET address == AddressForNetwork(output_def.address, cli_network)
           sum == total_recipient_output_value_sats + output_def.value_sats
       IN
       /\ config' = [config EXCEPT !.outputs = Append(@, output_def)]
       /\ IF ~address.ok
          THEN /\ result' = Failed([kind |-> "InputValidation", what |-> "address",
                                    cause |-> address.err])
               /\ pc' = "failed"
               /\ UNCHANGED <<outputs, total_recipient_output_value_sats>>
          ELSE /\ outputs' = Append(outputs, [value |-> output_def.value_sats,
                                              script_pubkey |-> address.val])
               /\ IF Overflowed(sum) /\ overflow_checks
                  THEN /\ result' = Panicked(92)
                       /\ pc' = "panicked"
                       /\ UNCHANGED total_recipient_output_value_sats
                  ELSE /\ total_recipient_output_value_sats' = WrapU64(sum)
                       /\ UNCHANGED <<pc, result>>
  /\ UNCHANGED <<overflow_checks, cli_network, processed_utxos,
                 total_input_value_sats, fee, change_value_sats, transaction, signing_infos,
                 signed_count>>

\* transaction.rs:84: config.outputs has no further element.
EndOutputLoop ==
  /\ pc = "outputs"
  /\ pc' = "fee"
  /\ UNCHANGED <<overflow_checks, cli_network, config, processed_utxos,
                 total_input_value_sats, outputs,
                 total_recipient_output_value_sats, fee, change_value_sats, transaction,
                 signing_infos, signed_count, result>>

\* transaction.rs:100-119: an input of the fee-estimation draft, carrying a
\* dummy signature and the public key where the real ones will go.
draft_input(pu) ==
  [previous_output |-> pu.out_point,
   script_sig      |-> IF pu.script_type = "P2PKH"
                       THEN <<DummySignature, PublicKeyItem(pu.public_key)>>
                       ELSE <<>>,
   sequence        |-> pu.sequence,
   witness         |-> IF pu.script_type = "P2WPKH"
                       THEN <<DummySignature, PublicKeyItem(pu.public_key)>>
                       ELSE <<>>]

\* transaction.rs:135-140: the draft the fee is estimated on.
draft_transaction(pus, outs, change_script) ==
  [version   |-> 2,
   lock_time |-> 0,
   input     |-> [i \in 1..Len(pus) |-> draft_input(pus[i])],
   output    |-> Append(outs, [value |-> 0, script_pubkey |-> change_script])]

\* transaction.rs:97-152: the change address, the draft, the fee and the
\* funds check.
EstimateFee ==
  /\ pc = "fee"
  /\ \E change_address \in ChangeAddresses, fee_rate \in FeeRates :
       LET address == AddressForNetwork(change_address, cli_network) IN
       /\ config' = [config EXCEPT !.change_address = Some(change_address),
                                   !.fee_rate_sats_per_vb = Some(fee_rate)]
       /\ IF ~address.ok
          THEN /\ result' = Failed([kind |-> "ChangeAddressDerivation",
                                    cause |-> address.err])
               /\ pc' = "failed"
               /\ UNCHANGED fee
          ELSE
          LET temp_tx == draft_transaction(processed_utxos, outputs, address.val)
              estimated_vsize == vsize(temp_tx)
              product == estimated_vsize * fee_rate
              total_fee_sats == WrapU64(product)
              required == total_recipient_output_value_sats + total_fee_sats
          IN
          IF Overflowed(product) /\ overflow_checks
          THEN /\ result' = Panicked(143)
               /\ pc' = "panicked"
               /\ UNCHANGED fee
          ELSE
          /\ fee' = [set |-> TRUE, temp_tx |-> temp_tx,
                     estimated_vsize |-> estimated_vsize,
                     total_fee_sats |-> total_fee_sats,
                     change_script |-> address.val]
          /\ IF Overflowed(required) /\ overflow_checks
             THEN /\ result' = Panicked(146)
                  /\ pc' = "panicked"
             ELSE IF total_input_value_sats < WrapU64(required)
             THEN /\ result' = Failed([kind |-> "InsufficientFunds",
                                       available |-> total_input_value_sats,
                                       required |-> WrapU64(required),
                                       fee |-> total_fee_sats])
                  /\ pc' = "failed"
             ELSE /\ pc' = "assemble"
                  /\ UNCHANGED result
  /\ UNCHANGED <<overflow_checks, cli_network, processed_utxos,
                 total_input_value_sats, outputs,
                 total_recipient_output_value_sats, change_value_sats,
                 transaction, signing_infos, signed_count>>

\* The mutant of change_value: the fee is not taken off the change.
change_value_without_fee(total_in, total_out, total_fee) ==
  WrapU64(total_in - total_out)

\* transaction.rs:154
change_value(total_in, total_out, total_fee) ==
  WrapU64(WrapU64(total_in - total_out) - total_fee)

\* The mutant of final_outputs: the change output is put in front of the
\* recipient outputs.
final_outputs_change_first(outs, change, change_script) ==
  IF change >= DUST_THRESHOLD_SATS
  THEN <<[value |-> change, script_pubkey |-> change_script]>> \o outs
  ELSE outs

\* transaction.rs:155-166: the dust rule.
final_outputs(outs, change, change_script) ==
  IF change >= DUST_THRESHOLD_SATS
  THEN Append(outs, [value |-> change, script_pubkey |-> change_script])
  ELSE outs

\* transaction.rs:172-177: an input of the transaction before signing.
unsigned_input(pu) ==
  [previous_output |-> pu.out_point,
   script_sig      |-> <<>>,
   sequence        |-> pu.sequence,
   witness         |-> <<>>]

\* transaction.rs:172-177
unsigned_inputs(pus) == [i \in 1..Len(pus) |-> unsigned_input(pus[i])]

\* transaction.rs:154-179: the change, the dust rule and the unsigned
\* transaction.
AssembleTransaction ==
  /\ pc = "assemble"
  /\ LET first == total_input_value_sats - total_recipient_output_value_sats
         second == WrapU64(first) - fee.total_fee_sats
         change == change_value(total_input_value_sats,
                                total_recipient_output_value_sats,
                                fee.total_fee_sats)
     IN
     IF (Overflowed(first) \/ Overflowed(second)) /\ overflow_checks
     THEN /\ result' = Panicked(154)
          /\ pc' = "panicked"
          /\ UNCHANGED <<change_value_sats, transaction>>
     ELSE /\ change_value_sats' = change
          /\ transaction' =
               [set       |-> TRUE,
                version   |-> 2,
                lock_time |-> 0,
                input     |-> unsigned_inputs(processed_utxos),
                output    |-> final_outputs(outputs, change, fee.change_script)]
          /\ pc' = "digest"
          /\ UNCHANGED result
  /\ UNCHANGED <<overflow_checks, cli_network, config, processed_utxos,
                 total_input_value_sats, outputs,
                 total_recipient_output_value_sats, fee, signing_infos,
                 signed_count>>

\* transaction.rs:197-227: the digest of one input, by the pattern of the
\* UTXO's locking script.  Message::from_digest_slice takes any 32-byte
\* digest, so the message is the digest.
sighash_message(tx, input_index, p_utxo) ==
  LET script == p_utxo.tx_out.script_pubkey IN
  IF is_p2pkh(script)
  THEN LET sighash == legacy_signature_hash(tx, input_index, script, SIGHASH_ALL) IN
       IF sighash.ok THEN Ok(sighash.val)
       ELSE Err([kind |-> "IndexError", input_index |-> input_index])
  ELSE IF is_p2wpkh(script)
  THEN LET script_code == p2wpkh_script_code(script) IN
       IF ~IsSome(script_code)
       THEN Err([kind |-> "Internal", input_index |-> input_index])
       ELSE LET sighash == p2wpkh_signature_hash(tx, input_index, script_code[1],
                                                 p_utxo.value, SIGHASH_ALL) IN
            IF sighash.ok THEN Ok(sighash.val)
            ELSE Err([kind |-> "SighashError", input_index |-> input_index])
  ELSE Err([kind |-> "UnknownScriptType", script_asm |-> script])

\* Secp256k1::sign_ecdsa (transaction.rs:246): deterministic in the message
\* and the secret key.
sign_ecdsa(message, private_key) ==
  [message |-> message, secret |-> private_key.inner]

\* bitcoin::ecdsa::Signature::from_slice on the 64 compact bytes
\* (transaction.rs:247): whether they read as a DER signature followed by a
\* sighash-type byte depends on the signature's bytes.
ecdsa_signature_from_slice(secp_sig, parses) ==
  IF parses THEN Ok([read_from_compact |-> secp_sig]) ELSE Err("EcdsaSignature")

\* The unlocking items of transaction.rs:252-256 and :261-263.
unlocking_items(btc_ecdsa_sig, public_key) ==
  << [kind |-> "signature", sig |-> btc_ecdsa_sig], PublicKeyItem(public_key) >>

\* The mutant of apply_signature: the payload is written at the mirrored index.
apply_signature_mirrored(tx, info, btc_ecdsa_sig) ==
  LET i == Len(tx.input) - info.input_index IN
  IF info.script_type = "P2PKH"
  THEN [tx EXCEPT !.input[i].script_sig =
                    unlocking_items(btc_ecdsa_sig, info.public_key)]
  ELSE [tx EXCEPT !.input[i].witness =
                    unlocking_items(btc_ecdsa_sig, info.public_key)]

\* transaction.rs:250-267: the payload is written into the input the record
\* names, as a script-sig for P2PKH and as a witness for P2WPKH.
apply_signature(tx, info, btc_ecdsa_sig) ==
  IF info.script_type = "P2PKH"
  THEN [tx EXCEPT !.input[info.input_index + 1].script_sig =
                    unlocking_items(btc_ecdsa_sig, info.public_key)]
  ELSE [tx EXCEPT !.input[info.input_index + 1].witness =
                    unlocking_items(btc_ecdsa_sig, info.public_key)]

\* The mutant of ComputeSighash: each input is signed as soon as its digest
\* is known, while the digests of the later inputs are still to be computed.
ComputeSighashAndSign ==
  /\ pc = "digest"
  /\ Len(signing_infos) < Len(processed_utxos)
  /\ LET input_index == Len(signing_infos)
         p_utxo == processed_utxos[input_index + 1]
         message == sighash_message(transaction, input_index, p_utxo)
         info == [input_index     |-> input_index,
                  sighash_message |-> message.val,
                  private_key     |-> p_utxo.private_key,
                  public_key      |-> p_utxo.public_key,
                  script_type     |-> p_utxo.script_type]
     IN
     /\ message.ok
     /\ signing_infos' = Append(signing_infos, info)
     /\ transaction' =
          apply_signature(transaction, info,
            ecdsa_signature_from_slice(
              sign_ecdsa(message.val, p_utxo.private_key), TRUE).val)
  /\ UNCHANGED <<pc, overflow_checks, cli_network, config, processed_utxos,
                 total_input_value_sats, outputs,
                 total_recipient_output_value_sats, fee, change_value_sats,
                 signed_count, result>>

\* transaction.rs:192-236: the digest loop's body for the next input.
ComputeSighash ==
  /\ pc = "digest"
  /\ Len(signing_infos) < Len(processed_utxos)
  /\ LET input_index == Len(signing_infos)
         p_utxo == processed_utxos[input_index + 1]
         message == sighash_message(transaction, input_index, p_utxo)
     IN
     IF ~message.ok
     THEN /\ result' = Failed(message.err)
          /\ pc' = "failed"
          /\ UNCHANGED signing_infos
     ELSE /\ signing_infos' =
               Append(signing_infos,
                      [input_index     |-> input_index,
                       sighash_message |-> message.val,
                       private_key     |-> p_utxo.private_key,
                       public_key      |-> p_utxo.public_key,
                       script_type     |-> p_utxo.script_type])
          /\ UNCHANGED <<pc, result>>
  /\ UNCHANGED <<overflow_checks, cli_network, config, processed_utxos,
                 total_input_value_sats, outputs,
                 total_recipient_output_value_sats, fee, change_value_sats,
                 transaction, signed_count>>

\* transaction.rs:237: the digest loop is over, the SighashCache is dropped
\* and its borrow of the transaction ends.
ReleaseSighashCache ==
  /\ pc = "digest"
  /\ Len(signing_infos) = Len(processed_utxos)
  /\ pc' = "sign"
  /\ UNCHANGED <<overflow_checks, cli_network, config, processed_utxos,
                 total_input_value_sats, outputs,
                 total_recipient_output_value_sats, fee, change_value_sats,
                 transaction, signing_infos, signed_count, result>>

\* transaction.rs:243-268: the signing loop's body for the next record.
SignInput ==
  /\ pc = "sign"
  /\ signed_count < Len(signing_infos)
  /\ \E parses \in BOOLEAN :
       LET info == signing_infos[signed_count + 1]
           secp_sig == sign_ecdsa(info.sighash_message, info.private_key)
           btc_ecdsa_sig == ecdsa_signature_from_slice(secp_sig, parses)
       IN
       /\ signed_count' = signed_count + 1
       /\ IF ~btc_ecdsa_sig.ok
          THEN /\ result' = Failed([kind |-> "SignatureError",
                                    input_index |-> info.input_index])
               /\ pc' = "failed"
               /\ UNCHANGED transaction
          ELSE /\ transaction' = apply_signature(transaction, info, btc_ecdsa_sig.val)
               /\ UNCHANGED <<pc, result>>
  /\ UNCHANGED <<overflow_checks, cli_network, config, processed_utxos,
                 total_input_value_sats, outputs,
                 total_recipient_output_value_sats, fee, change_value_sats,
                 signing_infos>>

\* The mutant of ReturnTransaction: the transaction is handed back as soon as
\* the signing phase is entered.
ReturnTransactionEarly ==
  /\ pc = "sign"
  /\ result' = Returned(transaction)
  /\ pc' = "done"
  /\ UNCHANGED <<overflow_checks, cli_network, config, processed_utxos,
                 total_input_value_sats, outputs,
                 total_recipient_output_value_sats, fee, change_value_sats,
                 transaction, signing_infos, signed_count>>

\* transaction.rs:271: every record is applied, the transaction is returned.
ReturnTransaction ==
  /\ pc = "sign"
  /\ signed_count = Len(signing_infos)
  /\ result' = Returned(transaction)
  /\ pc' = "done"
  /\ UNCHANGED <<overflow_checks, cli_network, config, processed_utxos,
                 total_input_value_sats, outputs,
                 total_recipient_output_value_sats, fee, change_value_sats,
                 transaction, signing_infos, signed_count>>

Next ==
  \/ ParseNetwork
  \/ NormalizeUtxo
  \/ EndUtxoLoop
  \/ BuildOutput
  \/ EndOutputLoop
  \/ EstimateFee
  \/ AssembleTransaction
  \/ ComputeSighash
  \/ ReleaseSighashCache
  \/ SignInput
  \/ ReturnTransaction

Spec == Init /\ [][Next]_vars

TypeOK ==
  /\ pc \in {"start", "utxos", "outputs", "fee", "assemble", "digest", "sign",
             "done", "failed", "panicked"}
  /\ total_input_value_sats \in 0..U64Max
  /\ total_recipient_output_value_sats \in 0..U64Max
  /\ change_value_sats \in 0..U64Max
  /\ signed_count \in 0..MaxLen

(***************************************************************************)
(* Quantities the properties speak of.                                     *)
(***************************************************************************)
\* The sums of the configured values and the product vsize x fee-rate, as
\* integers of any size.
ExactInputTotal ==
  SumSeq([i \in 1..Len(config.utxos) |-> config.utxos[i].value_sats])
ExactOutputTotal ==
  SumSeq([i \in 1..Len(config.outputs) |-> config.outputs[i].value_sats])
ExactFee == fee.estimated_vsize * config.fee_rate_sats_per_vb[1]

TxInputs == IF transaction = Unset THEN <<>> ELSE transaction.input

\* The outputs of the returned transaction after the recipient outputs.
ExtraOutputs(tx) == SubSeq(tx.output, Len(config.outputs) + 1, Len(tx.output))

\* The value of the change output of the returned transaction, 0 without one.
EmittedChange(tx) ==
  SumSeq([i \in 1..Len(ExtraOutputs(tx)) |-> ExtraOutputs(tx)[i].value])

(***************************************************************************)
(* C1.  As stated: on every run that returns a transaction, total input    *)
(* value = total recipient output value + computed fee + change, change    *)
(* being the value of the emitted change output and 0 when the remainder   *)
(* is below 546.  The totals and the fee are the run's u64 quantities.     *)
(***************************************************************************)
C1_BalanceWithEmittedChange ==
  result.kind = "Ok" =>
    total_input_value_sats =
      WrapU64(total_recipient_output_value_sats + fee.total_fee_sats
              + EmittedChange(result.tx))

(***************************************************************************)
(* C1, amended.  On every run that returns a transaction, in the run's u64 *)
(* arithmetic: total input value = total recipient output value + computed *)
(* fee + emitted change + dropped remainder, where the totals are the sums *)
(* of the configured values, the emitted change is 0 or at least 546, and  *)
(* the dropped remainder is 0 when a change output is emitted and is at    *)
(* most 545 otherwise (it is left to the miner on top of the computed fee).*)
(***************************************************************************)
DroppedRemainder(tx) == IF ExtraOutputs(tx) = <<>> THEN change_value_sats ELSE 0

C1_BalanceWithDroppedRemainder ==
  result.kind = "Ok" =>
    /\ total_input_value_sats = WrapU64(ExactInputTotal)
    /\ total_recipient_output_value_sats = WrapU64(ExactOutputTotal)
    /\ WrapU64(ExactInputTotal) =
         WrapU64(ExactOutputTotal + fee.total_fee_sats
                 + EmittedChange(result.tx) + DroppedRemainder(result.tx))
    /\ EmittedChange(result.tx) = 0 \/ EmittedChange(result.tx) >= DUST_THRESHOLD_SATS
    /\ DroppedRemainder(result.tx) < DUST_THRESHOLD_SATS

\* A returned transaction whose remainder of 1..545 satoshis was dropped.
C1_Witness ==
  /\ result.kind = "Ok"
  /\ ExtraOutputs(result.tx) = <<>>
  /\ change_value_sats > 0
  /\ Len(config.utxos) > 0 /\ Len(config.outputs) > 0

(***************************************************************************)
(* C2.  Whenever normalization and address validation pass: if the total   *)
(* input value is below total recipient output value + fee the run fails   *)
(* with InsufficientFunds carrying exactly available = total input value,  *)
(* required = total recipient output value + fee and fee = the computed    *)
(* fee; and every run that returns a transaction has sum(input values) >=  *)
(* sum(recipient output values) + fee.                                     *)
(***************************************************************************)
C2_InsufficientFundsRejected ==
  /\ result.kind = "Ok" => ExactInputTotal >= ExactOutputTotal + ExactFee
  /\ (/\ pc \in {"failed", "panicked", "done"}
      /\ IsSome(config.change_address)
      /\ AddressForNetwork(config.change_address[1], cli_network).ok
      /\ Len(processed_utxos) = Len(config.utxos)
      /\ Len(outputs) = Len(config.outputs)
      /\ result # Panicked(76) /\ result # Panicked(92)
      /\ LET draft == draft_transaction(processed_utxos, outputs,
                        AddressForNetwork(config.change_address[1], cli_network).val)
             exact_fee == vsize(draft) * config.fee_rate_sats_per_vb[1]
         IN ExactInputTotal < ExactOutputTotal + exact_fee)
     => LET draft == draft_transaction(processed_utxos, outputs,
                        AddressForNetwork(config.change_address[1], cli_network).val)
            exact_fee == vsize(draft) * config.fee_rate_sats_per_vb[1]
        IN result = Failed([kind |-> "InsufficientFunds",
                            available |-> ExactInputTotal,
                            required |-> ExactOutputTotal + exact_fee,
                            fee |-> exact_fee])

(***************************************************************************)
(* C3.  On every run that returns a transaction, with change = total input *)
(* value - total recipient output value - fee: a change of 545 or less     *)
(* leaves exactly the recipient outputs, a change of 546 or more adds      *)
(* exactly one change output, of that value, paying the change address.    *)
(***************************************************************************)
C3_DustRule ==
  result.kind = "Ok" =>
    LET change == ExactInputTotal - ExactOutputTotal - ExactFee IN
    IF change <= DUST_THRESHOLD_SATS - 1
    THEN ExtraOutputs(result.tx) = <<>>
    ELSE ExtraOutputs(result.tx) =
           << [value |-> change, script_pubkey |-> fee.change_script] >>

(***************************************************************************)
(* C4.  The fee of the funds check and of the change equals the vsize of   *)
(* the worst-case draft times the fee rate, exactly, as an integer         *)
(* product, for every fee rate.                                            *)
(***************************************************************************)
C4_FeeIsExactProduct ==
  fee # Unset =>
    /\ fee.estimated_vsize = vsize(draft_transaction(processed_utxos, outputs,
                                                     fee.change_script))
    /\ fee.total_fee_sats = ExactFee

(***************************************************************************)
(* C5.  The digest of every input is computed and captured before the     *)
(* first unlocking payload is written: while the run is in the digest      *)
(* phase every input's script-sig and witness are empty, and in any state  *)
(* in which some input carries a payload every input's digest has been     *)
(* recorded.                                                               *)
(***************************************************************************)
Unlocked(tx_in) == tx_in.script_sig # <<>> \/ tx_in.witness # <<>>

C5_DigestsBeforeWrites ==
  /\ pc = "digest" => \A i \in 1..Len(TxInputs) : ~Unlocked(TxInputs[i])
  /\ (\E i \in 1..Len(TxInputs) : Unlocked(TxInputs[i]))
       => /\ Len(signing_infos) = Len(processed_utxos)
          /\ pc \in {"sign", "done", "failed"}

\* The signing phase, one payload written and another input still bare.
C5_Witness ==
  /\ pc = "sign"
  /\ \E i, j \in 1..Len(TxInputs) : Unlocked(TxInputs[i]) /\ ~Unlocked(TxInputs[j])

(***************************************************************************)
(* C6.  A run ends either with a transaction in which every input carries  *)
(* its unlocking payload, or with a failure and no transaction; a failure  *)
(* ends the run at once; a transaction with some inputs signed and others  *)
(* not is never returned.                                                  *)
(***************************************************************************)
CarriesPayload(tx_in, script_type) ==
  IF script_type = "P2PKH" THEN Len(tx_in.script_sig) = 2 ELSE Len(tx_in.witness) = 2

DigestCommitsTo(message, index, script, value) ==
  /\ message.input_index = index
  /\ message.sighash_type = SIGHASH_ALL
  /\ IF message.alg = "legacy"
     THEN /\ Len(script) = 25
          /\ message.inputs[index + 1].script_sig = script
     ELSE /\ Len(script) = 22
          /\ message.script_code =
               <<118, 169, 20>> \o SubSeq(script, 3, 22) \o <<136, 172>>
          /\ message.value = value

PayloadOf(message, wif) ==
  << [kind |-> "signature",
      sig  |-> [read_from_compact |-> [message |-> message, secret |-> wif.secret]]],
     [kind |-> "pubkey",
      key  |-> [of |-> wif.secret, compressed |-> wif.payload_len = 34]] >>

C7_PositionalSigning ==
  result.kind = "Ok" =>
    LET n == Len(config.utxos) IN
    /\ Len(result.tx.input) = n
    /\ Len(signing_infos) = n
    /\ signed_count = n
    /\ \A i \in 1..n :
         LET utxo == config.utxos[i]
             tx_in == result.tx.input[i]
             script == HexDecode(utxo.script_pubkey_hex).val
             payload == PayloadOf(signing_infos[i].sighash_message,
                                  utxo.private_key_wif)
         IN
         /\ tx_in.previous_output =
              [txid |-> Reverse(HexDecode(utxo.txid).val), vout |-> utxo.vout]
         /\ tx_in.sequence = processed_utxos[i].sequence
         /\ signing_infos[i].input_index = i - 1
         /\ DigestCommitsTo(signing_infos[i].sighash_message, i - 1, script,
                            utxo.value_sats)
         /\ IF Len(script) = 25
            THEN tx_in.script_sig = payload /\ tx_in.witness = <<>>
            ELSE tx_in.witness = payload /\ tx_in.script_sig = <<>>

\* A returned transaction with a P2PKH and a P2WPKH input.
C7_Witness ==
  /\ result.kind = "Ok"
  /\ Len(result.tx.input) = 2
  /\ processed_utxos[1].script_type # processed_utxos[2].script_type

(***************************************************************************)
(* C8.  The classifier is total: a script of the P2PKH pattern is P2PKH, a *)
(* script of the P2WPKH pattern is P2WPKH, no script is both, any other    *)
(* script is an UnknownScriptType failure carrying that script's hex; so a *)
(* run with an unsupported script fails before any fee, digest or          *)
(* signature is computed and the digest stage's unknown-script branch is   *)
(* never taken.                                                            *)
(***************************************************************************)
\* The two patterns, byte for byte.
PatternP2pkh(script) ==
  /\ Len(script) = 25
  /\ SubSeq(script, 1, 3) = <<118, 169, 20>>
  /\ SubSeq(script, 24, 25) = <<136, 172>>
PatternP2wpkh(script) == Len(script) = 22 /\ SubSeq(script, 1, 2) = <<0, 20>>

\* The UTXO record read last reached the classifier: its key, its key's
\* network, its txid and its script hex were accepted.
LastUtxo == config.utxos[Len(config.utxos)]
LastUtxoReachedClassifier ==
  /\ Len(config.utxos) > 0
  /\ from_wif(LastUtxo.private_key_wif).ok
  /\ from_wif(LastUtxo.private_key_wif).val.network = NetworkKindOf(cli_network)
  /\ txid_from_str(LastUtxo.txid).ok
  /\ HexDecode(LastUtxo.script_pubkey_hex).ok

C8_ClassifierTotal ==
  /\ \A i \in 1..Len(processed_utxos) :
       LET script == processed_utxos[i].tx_out.script_pubkey IN
       /\ ~(PatternP2pkh(script) /\ PatternP2wpkh(script))
       /\ processed_utxos[i].script_type = "P2PKH" <=> PatternP2pkh(script)
       /\ processed_utxos[i].script_type = "P2WPKH" <=> PatternP2wpkh(script)
  /\ LastUtxoReachedClassifier =>
       LET script == HexDecode(LastUtxo.script_pubkey_hex).val IN
       IF PatternP2pkh(script) \/ PatternP2wpkh(script)
       THEN Len(processed_utxos) = Len(config.utxos)
       ELSE /\ pc = "failed"
            /\ result.err.kind = "UnknownScriptType"
            /\ HexDecode(result.err.script_hex) = Ok(script)
            /\ UpperHex(result.err.script_hex) = UpperHex(LastUtxo.script_pubkey_hex)
            /\ Len(processed_utxos) = Len(config.utxos) - 1
            /\ fee = Unset /\ transaction = Unset /\ signing_infos = <<>>
  /\ (result.kind = "Err" /\ result.err.kind = "UnknownScriptType")
       => /\ "script_hex" \in DOMAIN result.err
          /\ fee = Unset /\ transaction = Unset /\ signing_infos = <<>>

\* A run stopped by an unsupported script whose hex was given in upper case.
C8_Witness ==
  /\ pc = "failed"
  /\ result.err.kind = "UnknownScriptType"
  /\ result.err.script_hex # LastUtxo.script_pubkey_hex
  /\ Len(HexDecode(LastUtxo.script_pubkey_hex).val) = 34

(***************************************************************************)
(* C9.  As stated: every UTXO that is normalized has a private key whose   *)
(* embedded network equals the run's configured network, for each of       *)
(* bitcoin/mainnet, testnet and regtest.  The network a WIF key embeds is  *)
(* its version byte: 0x80 for bitcoin, 0xEF for testnet.                   *)
(***************************************************************************)
WifNetwork(wif) == IF wif.version = 128 THEN "Bitcoin" ELSE "Testnet"

C9_KeyNetworkEqualsConfigured ==
  \A i \in 1..Len(processed_utxos) :
    WifNetwork(config.utxos[i].private_key_wif) = cli_network

(***************************************************************************)
(* C9, amended.  The configured network is one of bitcoin, testnet and     *)
(* regtest.  Every UTXO that is normalized has a private key whose network *)
(* kind (main or test, which is all a key embeds) is the kind of the       *)
(* configured network: main for bitcoin, test for testnet and for regtest. *)
(* A UTXO whose key is of the other kind makes the run fail with           *)
(* NetworkMismatch naming the configured network and the key's kind, and   *)
(* no transaction is produced.                                             *)
(***************************************************************************)
WifDecodes(wif) ==
  wif.checksum_ok /\ wif.payload_len \in {33, 34} /\ wif.version \in {128, 239}
WifKind(wif) == IF wif.version = 128 THEN "Main" ELSE "Test"

C9_KeyKindEqualsConfiguredKind ==
  /\ pc \notin {"start", "failed"} => cli_network \in {"Bitcoin", "Testnet", "Regtest"}
  /\ \A i \in 1..Len(processed_utxos) :
       /\ processed_utxos[i].private_key.network
            = WifKind(config.utxos[i].private_key_wif)
       /\ processed_utxos[i].private_key.network = "Main" <=> cli_network = "Bitcoin"
  /\ (/\ Len(config.utxos) > 0
      /\ WifDecodes(LastUtxo.private_key_wif)
      /\ ~(WifKind(LastUtxo.private_key_wif) = "Main" <=> cli_network = "Bitcoin"))
     => /\ pc = "failed"
        /\ result = Failed([kind |-> "NetworkMismatch",
                            cli_network |-> cli_network,
                            inferred_network |-> WifKind(LastUtxo.private_key_wif)])
        /\ Len(processed_utxos) = Len(config.utxos) - 1
        /\ transaction = Unset

\* A regtest run that normalized a UTXO (its key carries the test version
\* byte) and then met a main-network key.
C9_Witness ==
  /\ cli_network = "Regtest"
  /\ Len(processed_utxos) = 1
  /\ pc = "failed"
  /\ result.err.kind = "NetworkMismatch"

(***************************************************************************)
(* C10.  Every input's sequence is the UTXO's own sequence when given,     *)
(* else the configured default when given, else 0xFFFFFFFF; the draft of   *)
(* the fee estimate, the digests and the returned transaction all use it.  *)
(***************************************************************************)
ExpectedSequence(i) ==
  IF config.utxos[i].sequence # <<>> THEN config.utxos[i].sequence[1]
  ELSE IF config.default_sequence # <<>> THEN config.default_sequence[1]
  ELSE <<65535, 65535>>

DigestSequencesExpected(message) ==
  IF message.alg = "legacy"
  THEN \A j \in 1..Len(message.inputs) :
         message.inputs[j].sequence = ExpectedSequence(j)
  ELSE /\ \A j \in 1..Len(message.sequences) :
            message.sequences[j] = ExpectedSequence(j)
       /\ message.sequence = ExpectedSequence(message.input_index + 1)

C10_SequenceResolution ==
  /\ \A i \in 1..Len(processed_utxos) :
       processed_utxos[i].sequence = ExpectedSequence(i)
  /\ fee # Unset =>
       /\ Len(fee.temp_tx.input) = Len(config.utxos)
       /\ \A i \in 1..Len(fee.temp_tx.input) :
            fee.temp_tx.input[i].sequence = ExpectedSequence(i)
  /\ \A k \in 1..Len(signing_infos) :
       /\ Len(signing_infos[k].sighash_message.outputs) = Len(transaction.output)
       /\ DigestSequencesExpected(signing_infos[k].sighash_message)
  /\ result.kind = "Ok" =>
       \A i \in 1..Len(result.tx.input) :
         result.tx.input[i].sequence = ExpectedSequence(i)

\* A returned transaction with a configured default, one input with its own
\* sequence and one without.
C10_Witness ==
  /\ result.kind = "Ok"
  /\ config.default_sequence # <<>>
  /\ Len(result.tx.input) = 2
  /\ config.utxos[1].sequence # <<>>
  /\ config.utxos[2].sequence = <<>>

(***************************************************************************)
(* C11: output layout and the frame of the signing phase.                  *)
(***************************************************************************)

\* The output the i-th entry of config.outputs asks for.
PaymentOutput(i) ==
  [value         |-> config.outputs[i].value_sats,
   script_pubkey |-> AddressForNetwork(config.outputs[i].address, cli_network).val]

\* The first m outputs of tx are the m configured payments, in order, and
\* at most one output follows them, paying to the change address.
PaymentLayout(tx) ==
  LET m == Len(config.outputs) IN
  /\ Len(tx.output) \in {m, m + 1}
  /\ \A i \in 1..m : tx.output[i] = PaymentOutput(i)
  /\ Len(tx.output) = m + 1 =>
       tx.output[m + 1].script_pubkey =
         AddressForNetwork(config.change_address[1], cli_network).val

\* after differs from before in script-sigs and witnesses at most.
SameSkeleton(before, after) ==
  /\ after.version = before.version
  /\ after.lock_time = before.lock_time
  /\ after.output = before.output
  /\ Len(after.input) = Len(before.input)
  /\ \A i \in 1..Len(before.input) :
       /\ after.input[i].previous_output = before.input[i].previous_output
       /\ after.input[i].sequence = before.input[i].sequence

C11_Step ==
  /\ (~transaction.set /\ transaction'.set) =>
       /\ transaction'.version = 2
       /\ transaction'.lock_time = 0
       /\ PaymentLayout(transaction')
       /\ \A i \in 1..Len(transaction'.input) : ~Unlocked(transaction'.input[i])
  /\ transaction.set =>
       /\ transaction'.set
       /\ SameSkeleton(transaction, transaction')
  /\ (result.kind # "Ok" /\ result'.kind = "Ok") =>
       /\ transaction.set
       /\ SameSkeleton(transaction, result'.tx)
       /\ result'.tx.version = 2
       /\ result'.tx.lock_time = 0
       /\ PaymentLayout(result'.tx)

\* C11: on every successful run with m payment outputs the returned
\* transaction's first m outputs are the payment outputs in the configured
\* order with their configured values, and the change output, when emitted,
\* is the single output after them; no step after the unsigned transaction
\* is built changes its output list, any input's outpoint or sequence, the
\* version (2) or the lock-time (0).
C11_OutputLayoutAndSigningFrame == [][C11_Step]_vars

\* A returned transaction with two different payments, a change output
\* after them and two signed inputs.
C11_Witness ==
  /\ result.kind = "Ok"
  /\ Len(config.outputs) = 2
  /\ config.outputs[1] # config.outputs[2]
  /\ Len(result.tx.output) = 3
  /\ Len(result.tx.input) = 2
  /\ \A i \in 1..2 : Unlocked(result.tx.input[i])

====
